---- MODULE Spec2Model ----
(***************************************************************************)
(* Model of the Audiobookshelf calibre plugin (src/action.py): the         *)
(* AutoLinker (quick_link_books) and the reconciliation run                *)
(* (sync_from_audiobookshelf) over a local calibre library and the data    *)
(* fetched from an Audiobookshelf server.                                  *)
(***************************************************************************)
EXTENDS Integers, Sequences, FiniteSets, TLC

(***************************************************************************)
(* Bounds of the model.                                                    *)
(***************************************************************************)
NumBooks == 2
MaxItems == 2
MaxProgress == 1

(***************************************************************************)
(* JSON / Python values.  Every value carries its kind, so that the code's *)
(* isinstance tests, "is None" tests and truthiness tests can be modelled. *)
(***************************************************************************)
None == [k |-> "none"]
Str(s) == [k |-> "str", s |-> s]
Bool(b) == [k |-> "bool", b |-> b]
Dict(f) == [k |-> "dict", d |-> f]
List(l) == [k |-> "list", l |-> l]
EmptyMap == [x \in {} |-> None]

IsNone(v) == v.k = "none"
IsDict(v) == v.k = "dict"
IsList(v) == v.k = "list"

\* Python truthiness: None, "", False, {} and [] are falsy.
Truthy(v) ==
    CASE v.k = "none" -> FALSE
      [] v.k = "str"  -> v.s # ""
      [] v.k = "bool" -> v.b
      [] v.k = "dict" -> DOMAIN v.d # {}
      [] v.k = "list" -> Len(v.l) > 0

\* dict.get(key, default) on the key -> value map of a dict
MapGet(m, key, default) == IF key \in DOMAIN m THEN m[key] ELSE default
\* d[key] = value on a key -> value map
MapSet(m, key, value) ==
    [x \in DOMAIN m \cup {key} |-> IF x = key THEN value ELSE m[x]]
\* dict.get(key, default) on a dict value
DictGet(v, key, default) == MapGet(v.d, key, default)

(***************************************************************************)
(* State.                                                                  *)
(*   CONFIG  the plugin configuration (key, library id, column selection)  *)
(*   server  what the Audiobookshelf server holds: the item list, the      *)
(*           envelope it is delivered in, and the user profile (/api/me)   *)
(*           with its mediaProgress list                                   *)
(*   db      the calibre library: book_id -> metadata                      *)
(*   sync    the record of the last sync_from_audiobookshelf run           *)
(*   link    the record of the last quick_link_books run                   *)
(*   dlg     link_audiobookshelf_book: where it stands, the LinkDialog it  *)
(*           has open and the metadata object it read for that dialog      *)
(***************************************************************************)
VARIABLES CONFIG, server, db, sync, link, dlg

vars == <<CONFIG, server, db, sync, link, dlg>>

BookIds == 1..NumBooks

\* db.search(''): all book ids, here in ascending order
RECURSIVE IdSeq(_)
IdSeq(n) == IF n = 0 THEN <<>> ELSE Append(IdSeq(n - 1), n)
all_book_ids == IdSeq(NumBooks)

(***************************************************************************)
(* The transport.  net is what happens to the HTTP call.                   *)
(***************************************************************************)
NetOutcomes == {"ok", "HTTPError", "URLError", "ReadTimeout", "JSONDecodeError"}

\* api_request: the parsed payload, None for HTTPError/URLError; any other
\* exception (a timeout while reading the body, a body that is not JSON)
\* is not caught and propagates to the caller.
api_request(payload, net) ==
    CASE net = "ok" -> [raised |-> FALSE, value |-> payload]
      [] net \in {"HTTPError", "URLError"} -> [raised |-> FALSE, value |-> None]
      [] OTHER -> [raised |-> TRUE, value |-> None]

\* unwrapping of the items payload: {"results": [...]} or a bare list, else []
Unwrap(items_data) ==
    IF IsDict(items_data) /\ "results" \in DOMAIN items_data.d
    THEN items_data.d["results"].l
    ELSE IF IsList(items_data) THEN items_data.l
    ELSE <<>>

\* the shapes in which the server can deliver the item list
Envelopes == {"results", "list", "other"}
Wrap(items, env) ==
    CASE env = "results" -> Dict([results |-> List(items)])
      [] env = "list" -> List(items)
      [] OTHER -> Dict([total |-> Str("0")])

\* mutant: only the API key is required
ConfigMissing_KeyOnly(cfg) == cfg.abs_key = ""

\* not api_key or not library_id
ConfigMissing(cfg) == cfg.abs_key = "" \/ cfg.abs_library_id = ""

(***************************************************************************)
(* quick_link_books (AutoLinker).                                          *)
(***************************************************************************)
\* media.metadata of an item, as the index loop reads it
ItemMetadata(item) == DictGet(DictGet(item, "media", Dict(EmptyMap)), "metadata", Dict(EmptyMap))

\* the index loop calls .get on item, media and metadata: each must be a dict
Indexable(item) ==
    /\ IsDict(item)
    /\ IsDict(DictGet(item, "media", Dict(EmptyMap)))
    /\ IsDict(ItemMetadata(item))

\* index.setdefault(key, []).append(item) for every item whose key is truthy
RECURSIVE BuildIndex(_, _)
BuildIndex(abs_items, field) ==
    IF abs_items = <<>> THEN EmptyMap
    ELSE LET n == Len(abs_items)
             rest == BuildIndex(SubSeq(abs_items, 1, n - 1), field)
             item == abs_items[n]
             key == DictGet(ItemMetadata(item), field, None)
         IN IF Truthy(key)
            THEN MapSet(rest, key, Append(MapGet(rest, key, <<>>), item))
            ELSE rest

isbn_index(abs_items) == BuildIndex(abs_items, "isbn")
asin_index(abs_items) == BuildIndex(abs_items, "asin")

\* mutant: any match links, also an ambiguous one
MatchedItem_AnyMatch(identifiers, isbns, asins) ==
    LET book_isbn == MapGet(identifiers, "isbn", None)
        book_asin == MapGet(identifiers, "asin", None)
    IN IF Truthy(book_isbn) /\ book_isbn \in DOMAIN isbns /\ Len(isbns[book_isbn]) >= 1
       THEN isbns[book_isbn][1]
       ELSE IF Truthy(book_asin) /\ book_asin \in DOMAIN asins /\ Len(asins[book_asin]) >= 1
       THEN asins[book_asin][1]
       ELSE None

\* mutant: ASIN is tried before ISBN
MatchedItem_AsinFirst(identifiers, isbns, asins) ==
    LET book_isbn == MapGet(identifiers, "isbn", None)
        book_asin == MapGet(identifiers, "asin", None)
    IN IF Truthy(book_asin) /\ book_asin \in DOMAIN asins /\ Len(asins[book_asin]) = 1
       THEN asins[book_asin][1]
       ELSE IF Truthy(book_isbn) /\ book_isbn \in DOMAIN isbns /\ Len(isbns[book_isbn]) = 1
       THEN isbns[book_isbn][1]
       ELSE None

\* the item a book is matched to, None when there is no unique match
MatchedItem(identifiers, isbns, asins) ==
    LET book_isbn == MapGet(identifiers, "isbn", None)
        book_asin == MapGet(identifiers, "asin", None)
    IN IF Truthy(book_isbn) /\ book_isbn \in DOMAIN isbns /\ Len(isbns[book_isbn]) = 1
       THEN isbns[book_isbn][1]
       ELSE IF Truthy(book_asin) /\ book_asin \in DOMAIN asins /\ Len(asins[book_asin]) = 1
       THEN asins[book_asin][1]
       ELSE None

\* mutant: the already-linked test is missing
AlreadyLinked_Never(identifiers) == FALSE

\* 'audiobookshelf_id' in identifiers
AlreadyLinked(identifiers) == "audiobookshelf_id" \in DOMAIN identifiers

EmptyLinkAcc(d) ==
    [db |-> d, num_linked |-> 0, num_failed |-> 0, results |-> <<>>, writes |-> <<>>]

\* one iteration of the loop over all_book_ids
LinkBook(acc, book_id, isbns, asins) ==
    LET metadata == acc.db[book_id]
        identifiers == metadata.identifiers
        matched_item == MatchedItem(identifiers, isbns, asins)
    IN IF AlreadyLinked(identifiers) THEN acc
       ELSE IF Truthy(matched_item)
       THEN LET abs_id == DictGet(matched_item, "id", None)
                abs_title == DictGet(ItemMetadata(matched_item), "title", Str("Unknown Title"))
            IN [acc EXCEPT
                  !.db[book_id].identifiers = MapSet(identifiers, "audiobookshelf_id", abs_id),
                  !.writes = Append(@, book_id),
                  !.num_linked = @ + 1,
                  !.results = Append(@, [book |-> book_id, linked |-> abs_title, error |-> ""])]
       ELSE [acc EXCEPT
                  !.num_failed = @ + 1,
                  !.results = Append(@, [book |-> book_id, linked |-> None,
                                         error |-> "No unique match found"])]

RECURSIVE LinkLoop(_, _, _, _)
LinkLoop(ids, d, isbns, asins) ==
    IF ids = <<>> THEN EmptyLinkAcc(d)
    ELSE LET n == Len(ids)
         IN LinkBook(LinkLoop(SubSeq(ids, 1, n - 1), d, isbns, asins), ids[n], isbns, asins)

\* the record of a run: how it ended, the fetches it issued, the library it
\* started from, the items it fetched and what its loop did
LinkRun(outcome, fetches, d, abs_items, acc) ==
    [outcome |-> outcome, fetches |-> fetches, before |-> d, abs_items |-> abs_items,
     acc |-> acc]

\* the whole handler
quick_link_books(cfg, srv, d, net) ==
    IF ConfigMissing(cfg)
    THEN LinkRun("ConfigError", 0, d, <<>>, EmptyLinkAcc(d))
    ELSE LET resp == api_request(Wrap(srv.items, srv.envelope), net)
             abs_items == Unwrap(resp.value)
         IN IF resp.raised
            THEN LinkRun("Exception", 1, d, <<>>, EmptyLinkAcc(d))
            ELSE IF IsNone(resp.value)
            THEN LinkRun("FetchError", 1, d, <<>>, EmptyLinkAcc(d))
            ELSE IF \E i \in 1..Len(abs_items) : ~Indexable(abs_items[i])
            THEN LinkRun("Exception", 1, d, abs_items, EmptyLinkAcc(d))
            ELSE LinkRun("done", 1, d, abs_items,
                         LinkLoop(all_book_ids, d, isbn_index(abs_items), asin_index(abs_items)))

NoLink(d) == LinkRun("none", 0, d, <<>>, EmptyLinkAcc(d))

(***************************************************************************)
(* The field mapping table COLUMNS (CUSTOM_COLUMN_DEFAULTS of config.py)   *)
(* and its transforms.                                                     *)
(***************************************************************************)
COLUMNS ==
    [column_audiobook_title |->
        [column_heading |-> "Audiobook Title", api_source |-> "lib_items",
         data_location |-> <<"media", "metadata", "title">>, transform |-> ""],
     column_audiobook_subtitle |->
        [column_heading |-> "Audiobook Subtitle", api_source |-> "lib_items",
         data_location |-> <<"media", "metadata", "subtitle">>, transform |-> ""],
     column_audiobook_progress |->
        [column_heading |-> "Audiobook Progress", api_source |-> "mediaProgress",
         data_location |-> <<"progress">>, transform |-> "percent"],
     column_audiobook_started |->
        [column_heading |-> "Audiobook Started", api_source |-> "mediaProgress",
         data_location |-> <<"isStarted">>, transform |-> ""],
     column_abs_user |->
        [column_heading |-> "Audiobookshelf User", api_source |-> "me",
         data_location |-> <<"username">>, transform |-> ""]]

\* COLUMNS.items(): the table in its insertion order
ColumnOrder ==
    <<"column_audiobook_title", "column_audiobook_subtitle",
      "column_audiobook_progress", "column_audiobook_started", "column_abs_user">>

\* a pure transform of the extracted value; it may yield None
Transform(name, value) ==
    CASE name = "percent" ->
             (CASE value = Str("0.5") -> Str("50")
                [] value = Str("1.0") -> Str("100")
                [] OTHER -> None)
      [] OTHER -> value

(***************************************************************************)
(* sync_from_audiobookshelf (reconciliation run).                          *)
(***************************************************************************)
\* get_nested_value: follow path through nested dicts; None as soon as the
\* value at hand is None or is not a dict
RECURSIVE get_nested_value(_, _)
get_nested_value(data, path) ==
    IF path = <<>> THEN data
    ELSE IF IsNone(data) THEN None
    ELSE IF IsDict(data) THEN get_nested_value(DictGet(data, Head(path), None), Tail(path))
    ELSE None

\* dict[key(x)] = x for every x of the list whose key is truthy (last wins)
RECURSIVE BuildDict(_, _)
BuildDict(list, field) ==
    IF list = <<>> THEN EmptyMap
    ELSE LET n == Len(list)
             rest == BuildDict(SubSeq(list, 1, n - 1), field)
             key == DictGet(list[n], field, None)
         IN IF Truthy(key) THEN MapSet(rest, key, list[n]) ELSE rest

items_dict(items_list) == BuildDict(items_list, "id")
media_progress_dict(media_progress_list) == BuildDict(media_progress_list, "libraryItemId")

\* metadata.get(key) for a column of the book
MetaGet(metadata, key) == MapGet(metadata.cols, key, None)

\* the value computed for one mapping entry: extraction from the entry's
\* source, the "Audiobook Started" default, then the transform
FieldValue(col_meta, item_data, progress_data, me_data) ==
    LET extracted ==
            CASE col_meta.api_source = "mediaProgress" ->
                     LET v == get_nested_value(progress_data, col_meta.data_location)
                     IN IF col_meta.column_heading = "Audiobook Started" /\ IsNone(v)
                        THEN Bool(TRUE) ELSE v
              [] col_meta.api_source = "lib_items" ->
                     get_nested_value(item_data, col_meta.data_location)
              [] col_meta.api_source = "me" ->
                     get_nested_value(me_data, col_meta.data_location)
              [] OTHER -> None
    IN IF IsNone(extracted) THEN None
       ELSE IF col_meta.transform # "" THEN Transform(col_meta.transform, extracted)
       ELSE extracted

\* mutant: the new value is not compared with the old one
UpdateField_NoDiff(st, config_name, cfg, metadata, item_data, progress_data, me_data) ==
    LET col_meta == COLUMNS[config_name]
        column_name == cfg.cols[config_name]
        value == FieldValue(col_meta, item_data, progress_data, me_data)
        old_value == MetaGet(metadata, column_name)
    IN IF column_name = "" THEN st
       ELSE IF IsNone(value) THEN st
       ELSE [kv |-> MapSet(st.kv, column_name, value),
             changes |-> MapSet(st.changes, col_meta.column_heading,
                                [old |-> old_value, new |-> value])]

\* one iteration of the loop over COLUMNS.items()
UpdateField(st, config_name, cfg, metadata, item_data, progress_data, me_data) ==
    LET col_meta == COLUMNS[config_name]
        column_name == cfg.cols[config_name]
        value == FieldValue(col_meta, item_data, progress_data, me_data)
        old_value == MetaGet(metadata, column_name)
    IN IF column_name = "" THEN st
       ELSE IF IsNone(value) THEN st
       ELSE IF old_value # value
       THEN [kv |-> MapSet(st.kv, column_name, value),
             changes |-> MapSet(st.changes, col_meta.column_heading,
                                [old |-> old_value, new |-> value])]
       ELSE st

\* keys_values_to_update (and the change log) of one book, the mapping
\* entries taken in the given order
RECURSIVE keys_values_to_update(_, _, _, _, _, _)
keys_values_to_update(order, cfg, metadata, item_data, progress_data, me_data) ==
    IF order = <<>> THEN [kv |-> EmptyMap, changes |-> EmptyMap]
    ELSE LET n == Len(order)
         IN UpdateField(keys_values_to_update(SubSeq(order, 1, n - 1), cfg, metadata,
                                              item_data, progress_data, me_data),
                        order[n], cfg, metadata, item_data, progress_data, me_data)

\* what db.lookup_by_uuid can do
LookupOutcomes == {"found", "raise", "none"}

\* mutant: a lookup that returns no handle is not noticed, the write happens
update_metadata_NoHandleCheck(d, book_uuid, kv, lookup) ==
    IF lookup = "raise" THEN [status |-> FALSE, error |-> "Book not found", db |-> d, written |-> <<>>]
    ELSE LET book_id == CHOOSE b \in DOMAIN d : d[b].uuid = book_uuid
             metadata == d[book_id]
             updates == {key \in DOMAIN kv : kv[key] # MetaGet(metadata, key)}
             new_cols == [c \in DOMAIN metadata.cols \cup updates |->
                            IF c \in updates THEN kv[c] ELSE metadata.cols[c]]
         IN [status |-> TRUE, error |-> "",
             db |-> [d EXCEPT ![book_id].cols = new_cols], written |-> <<book_id>>]

\* update_metadata: resolve the book by uuid, write the keys that differ
update_metadata(d, book_uuid, kv, lookup) ==
    IF lookup = "raise" THEN [status |-> FALSE, error |-> "Book not found", db |-> d, written |-> <<>>]
    ELSE IF lookup = "none" \/ ~\E b \in DOMAIN d : d[b].uuid = book_uuid
    THEN [status |-> FALSE, error |-> "Book not found", db |-> d, written |-> <<>>]
    ELSE LET book_id == CHOOSE b \in DOMAIN d : d[b].uuid = book_uuid
             metadata == d[book_id]
             updates == {key \in DOMAIN kv : kv[key] # MetaGet(metadata, key)}
             new_cols == [c \in DOMAIN metadata.cols \cup updates |->
                            IF c \in updates THEN kv[c] ELSE metadata.cols[c]]
         IN IF updates # {}
            THEN [status |-> TRUE, error |-> "",
                  db |-> [d EXCEPT ![book_id].cols = new_cols], written |-> <<book_id>>]
            ELSE [status |-> TRUE, error |-> "", db |-> d, written |-> <<>>]

NoSet == [linked |-> FALSE, found |-> FALSE, kv |-> EmptyMap, lookup |-> "uncalled"]

EmptySyncAcc(d) ==
    [db |-> d, num_success |-> 0, num_fail |-> 0, num_skip |-> 0, results |-> <<>>,
     writes |-> <<>>, sets |-> [b \in DOMAIN d |-> NoSet]]

\* mutant: a linked item that is not in the fetch counts as failed
ItemNotFound_AsFailed(acc, book_id) ==
    [acc EXCEPT
       !.results = Append(@, [book |-> book_id, changes |-> EmptyMap,
                              error |-> "Audiobookshelf item not found"]),
       !.num_fail = @ + 1,
       !.sets[book_id] = [linked |-> TRUE, found |-> FALSE, kv |-> EmptyMap, lookup |-> "uncalled"]]

\* the linked item is not in the fetch: an entry with the error, a skip
ItemNotFound(acc, book_id) ==
    [acc EXCEPT
       !.results = Append(@, [book |-> book_id, changes |-> EmptyMap,
                              error |-> "Audiobookshelf item not found"]),
       !.num_skip = @ + 1,
       !.sets[book_id] = [linked |-> TRUE, found |-> FALSE, kv |-> EmptyMap, lookup |-> "uncalled"]]

\* a non-empty keys_values_to_update went through update_metadata, whose
\* lookup_by_uuid did what looked_up says
Applied(acc, book_id, upd, applied, looked_up) ==
    [acc EXCEPT
       !.db = applied.db,
       !.writes = @ \o applied.written,
       !.num_success = IF applied.status THEN @ + 1 ELSE @,
       !.num_fail = IF applied.status THEN @ ELSE @ + 1,
       !.results = Append(@, [book |-> book_id, changes |-> upd.changes,
                              error |-> applied.error]),
       !.sets[book_id] = [linked |-> TRUE, found |-> TRUE, kv |-> upd.kv,
                          lookup |-> looked_up]]

\* mutant: a record with nothing to update is not counted
NothingToUpdate_NotCounted(acc, book_id, upd) ==
    [acc EXCEPT
       !.results = Append(@, [book |-> book_id, changes |-> upd.changes, error |-> ""]),
       !.sets[book_id] = [linked |-> TRUE, found |-> TRUE, kv |-> EmptyMap, lookup |-> "uncalled"]]

\* keys_values_to_update is empty: a skip
NothingToUpdate(acc, book_id, upd) ==
    [acc EXCEPT
       !.num_skip = @ + 1,
       !.results = Append(@, [book |-> book_id, changes |-> upd.changes, error |-> ""]),
       !.sets[book_id] = [linked |-> TRUE, found |-> TRUE, kv |-> EmptyMap, lookup |-> "uncalled"]]

\* one iteration of the loop over all_book_ids
SyncBook(acc, book_id, order, cfg, items, progress, me_data, lookup) ==
    LET metadata == acc.db[book_id]
        abs_id == MapGet(metadata.identifiers, "audiobookshelf_id", None)
        item_data == MapGet(items, abs_id, None)
        progress_data == MapGet(progress, abs_id, Dict(EmptyMap))
        upd == keys_values_to_update(order, cfg, metadata, item_data, progress_data, me_data)
        applied == update_metadata(acc.db, metadata.uuid, upd.kv, lookup[book_id])
    IN IF ~Truthy(abs_id) THEN acc
       ELSE IF ~Truthy(item_data) THEN ItemNotFound(acc, book_id)
       ELSE IF DOMAIN upd.kv # {} THEN Applied(acc, book_id, upd, applied, lookup[book_id])
       ELSE NothingToUpdate(acc, book_id, upd)

RECURSIVE SyncLoop(_, _, _, _, _, _, _, _)
SyncLoop(ids, d, order, cfg, items, progress, me_data, lookup) ==
    IF ids = <<>> THEN EmptySyncAcc(d)
    ELSE LET n == Len(ids)
         IN SyncBook(SyncLoop(SubSeq(ids, 1, n - 1), d, order, cfg, items, progress,
                              me_data, lookup),
                     ids[n], order, cfg, items, progress, me_data, lookup)

\* every x of the list is a dict (the index loops call x.get)
AllDicts(list) == \A i \in 1..Len(list) : IsDict(list[i])

\* the record of a run: how it ended, the requests it issued and those that
\* returned None, the inputs it worked on and what its loop did; the
\* completion dialog is shown unless the run is silent
SyncRun(outcome, fetches, failed, silent, cfg, d, items_list, me_data, acc) ==
    [outcome |-> outcome, fetches |-> fetches, failed |-> failed,
     reported |-> (outcome = "done" /\ ~silent),
     cfg |-> cfg, before |-> d, items_list |-> items_list, me_data |-> me_data, acc |-> acc]

\* the whole handler
sync_from_audiobookshelf(cfg, srv, d, silent, net_items, net_me, lookup) ==
    IF ConfigMissing(cfg)
    THEN SyncRun("ConfigError", 0, {}, silent, cfg, d, <<>>, None, EmptySyncAcc(d))
    ELSE LET items_resp == api_request(Wrap(srv.items, srv.envelope), net_items)
             me_resp == api_request(srv.me, net_me)
             items_data == items_resp.value
             me_data == me_resp.value
             items_list == Unwrap(items_data)
             media_progress_list == DictGet(me_data, "mediaProgress", List(<<>>))
             failed == {r \in {"items", "me"} :
                          IsNone(IF r = "items" THEN items_data ELSE me_data)}
         IN IF items_resp.raised
            THEN SyncRun("Exception", 1, {}, silent, cfg, d, <<>>, None, EmptySyncAcc(d))
            ELSE IF me_resp.raised
            THEN SyncRun("Exception", 2, {}, silent, cfg, d, <<>>, None, EmptySyncAcc(d))
            ELSE IF IsNone(items_data) \/ IsNone(me_data)
            THEN SyncRun("FetchError", 2, failed, silent, cfg, d, <<>>, None, EmptySyncAcc(d))
            ELSE IF \/ ~AllDicts(items_list)
                    \/ ~IsDict(me_data)
                    \/ ~IsList(media_progress_list)
                    \/ ~AllDicts(media_progress_list.l)
            THEN SyncRun("Exception", 2, failed, silent, cfg, d, items_list, me_data,
                         EmptySyncAcc(d))
            ELSE SyncRun("done", 2, failed, silent, cfg, d, items_list, me_data,
                         SyncLoop(all_book_ids, d, ColumnOrder, cfg, items_dict(items_list),
                                  media_progress_dict(media_progress_list.l), me_data, lookup))

NoSync(cfg, d) == SyncRun("none", 0, {}, TRUE, cfg, d, <<>>, None, EmptySyncAcc(d))

(***************************************************************************)
(* link_audiobookshelf_book and LinkDialog (InteractiveMatcher).  A title  *)
(* or author name is a string given as the sequence of its code points.    *)
(***************************************************************************)
\* str.lower() on ASCII letters
lower(s) == [i \in DOMAIN s |-> IF s[i] \in 65..90 THEN s[i] + 32 ELSE s[i]]

\* a < b for two strings, or two tuples of comparable parts
RECURSIVE LexLess(_, _)
LexLess(a, b) ==
    IF b = <<>> THEN FALSE
    ELSE IF a = <<>> THEN TRUE
    ELSE IF Head(a) # Head(b) THEN Head(a) < Head(b)
    ELSE LexLess(Tail(a), Tail(b))

\* sorted(items, key = ...): the positions of the items in the order of the
\* stable sort by keys[i]
RECURSIVE SortedPositions(_, _)
SortedPositions(n, keys) ==
    IF n = 0 THEN <<>>
    ELSE LET p == SortedPositions(n - 1, keys)
             k == Cardinality({j \in DOMAIN p : ~LexLess(keys[n], keys[p[j]])})
         IN SubSeq(p, 1, k) \o <<n>> \o SubSeq(p, k + 1, Len(p))
sorted(items, keys) ==
    LET p == SortedPositions(Len(items), keys) IN [i \in DOMAIN p |-> items[p[i]]]

\* [item for item in items_list if isinstance(item, dict)]
RECURSIVE filtered_items(_)
filtered_items(items_list) ==
    IF items_list = <<>> THEN <<>>
    ELSE IF IsDict(Head(items_list))
    THEN <<Head(items_list)>> \o filtered_items(Tail(items_list))
    ELSE filtered_items(Tail(items_list))

\* x.get('media', {}).get('metadata', {}).get(field, '').lower() raises an
\* AttributeError when media or metadata is not a dict or the value not a str
Lowered(item, field) ==
    LET media == DictGet(item, "media", Dict(EmptyMap))
        metadata == IF IsDict(media) THEN DictGet(media, "metadata", Dict(EmptyMap)) ELSE None
        value == IF IsDict(metadata) THEN DictGet(metadata, field, Str(<<>>)) ELSE None
    IN IF value.k = "str" THEN [raised |-> FALSE, value |-> lower(value.s)]
       ELSE [raised |-> TRUE, value |-> <<>>]

\* the key of the sort in link_audiobookshelf_book
title_key(item) == Lowered(item, "title")

\* calibre_title and calibre_authors of LinkDialog.__init__
calibre_title(metadata) ==
    IF "title" \in DOMAIN metadata THEN lower(metadata.title.s) ELSE <<>>
calibre_authors(metadata) ==
    LET authors == IF "authors" \in DOMAIN metadata THEN metadata.authors ELSE List(<<>>)
        list == IF authors.k = "str" THEN <<authors>> ELSE authors.l
    IN {lower(list[i].s) : i \in DOMAIN list}

\* the match score of sort_key
score(item, metadata) ==
    (IF Lowered(item, "title").value = calibre_title(metadata) THEN 1 ELSE 0)
    + (IF Lowered(item, "authorName").value \in calibre_authors(metadata) THEN 1 ELSE 0)

\* sort_key: the tuple (-score, abs_title), as one tuple of comparable parts
sort_key(item, metadata) ==
    [raised |-> Lowered(item, "title").raised \/ Lowered(item, "authorName").raised,
     value |-> <<2 - score(item, metadata)>> \o Lowered(item, "title").value]

\* LinkDialog.__init__: self.items = sorted(items, key = sort_key)
LinkDialog(items, metadata) ==
    LET keys == [i \in DOMAIN items |-> sort_key(items[i], metadata)]
    IN IF \E i \in DOMAIN items : keys[i].raised
       THEN [raised |-> TRUE, items |-> <<>>]
       ELSE [raised |-> FALSE, items |-> sorted(items, [i \in DOMAIN items |-> keys[i].value])]

\* the handler between two dialogs: no dialog is open
Closed(outcome, fetched, st) ==
    [pc |-> "idle", outcome |-> outcome, fetched |-> fetched, sorted_items |-> st.sorted_items,
     rest |-> <<>>, book_id |-> 0, metadata |-> EmptyMap, items |-> <<>>,
     linked |-> st.linked, skipped |-> st.skipped]
NoDialog == Closed("none", <<>>, [sorted_items |-> <<>>, linked |-> 0, skipped |-> 0])

\* the head of the loop over selected_ids: get_metadata(book_id), then the
\* LinkDialog on it is constructed and shown (dlg.exec_())
NextDialog(d, st, ids) ==
    IF ids = <<>> THEN Closed("done", st.fetched, st)
    ELSE LET metadata == d[Head(ids)]
             shown == LinkDialog(st.sorted_items, metadata)
         IN IF shown.raised THEN Closed("AttributeError", st.fetched, st)
            ELSE [pc |-> "open", outcome |-> "none", fetched |-> st.fetched,
                  sorted_items |-> st.sorted_items, rest |-> Tail(ids), book_id |-> Head(ids),
                  metadata |-> metadata, items |-> shown.items,
                  linked |-> st.linked, skipped |-> st.skipped]

\* link_audiobookshelf_book up to its first dialog
link_audiobookshelf_book(cfg, srv, d, net_items, net_me, selected_ids) ==
    LET none == [sorted_items |-> <<>>, linked |-> 0, skipped |-> 0]
    IN IF ConfigMissing(cfg) THEN Closed("ConfigError", <<>>, none)
       ELSE LET items_resp == api_request(Wrap(srv.items, srv.envelope), net_items)
                me_resp == api_request(srv.me, net_me)
                items_list == Unwrap(items_resp.value)
                filtered == filtered_items(items_list)
                keys == [i \in DOMAIN filtered |-> title_key(filtered[i])]
                st == [sorted_items |-> sorted(filtered, [i \in DOMAIN filtered |-> keys[i].value]),
                       fetched |-> items_list, linked |-> 0, skipped |-> 0]
            IN IF items_resp.raised \/ me_resp.raised
               THEN Closed("Exception", <<>>, none)
               ELSE IF IsNone(items_resp.value) \/ IsNone(me_resp.value)
               THEN Closed("FetchError", <<>>, none)
               ELSE IF \E i \in DOMAIN filtered : keys[i].raised
               THEN Closed("AttributeError", items_list, none)
               ELSE IF selected_ids = <<>>
               THEN Closed("NoSelection", items_list, st)
               ELSE NextDialog(d, st, selected_ids)

\* db.set_metadata(book_id, mi): every field of mi that is not None replaces
\* the stored one (calibre's Cache.set_metadata without force_changes)
set_metadata(d, book_id, mi) ==
    [d EXCEPT ![book_id].identifiers =
                  [k \in DOMAIN @ \cup DOMAIN mi.identifiers |->
                      IF k \in DOMAIN mi.identifiers THEN mi.identifiers[k] ELSE @[k]],
              ![book_id].cols =
                  [c \in DOMAIN @ |-> IF IsNone(mi.cols[c]) THEN @[c] ELSE mi.cols[c]]]

\* the dialog was accepted with the row-th item selected: the id is put into
\* the metadata object read before the dialog, and the object is written
accepted(d, st, row) ==
    LET selected_item == st.items[row]
        abs_id == DictGet(selected_item, "id", None)
        metadata == [st.metadata EXCEPT
                        !.identifiers = MapSet(@, "audiobookshelf_id", abs_id)]
    IN [db |-> set_metadata(d, st.book_id, metadata),
        st |-> [st EXCEPT !.linked = @ + 1]]

\* the dialog was accepted without a selection, or cancelled
rejected(d, st) == [db |-> d, st |-> [st EXCEPT !.skipped = @ + 1]]

(***************************************************************************)
(* The worlds the runs start from.                                         *)
(***************************************************************************)
SeqsUpTo(S, n) == UNION {[1..m -> S] : m \in 0..n}

\* a calibre book: uuid, identifiers and the values of its custom columns
Book(book_id, identifiers, cols) ==
    [uuid |-> book_id, identifiers |-> identifiers, cols |-> cols]

Columns == {"#a", "#b", "#c", "#d", "#e"}
NoCols == [c \in Columns |-> None]
NoMapping == [n \in DOMAIN COLUMNS |-> ""]

\* configurations: a complete one and ones that miss the key or the library id
Connected == [abs_key |-> "key", abs_library_id |-> "lib"]
Connections ==
    {Connected,
     [abs_key |-> "", abs_library_id |-> "lib"],
     [abs_key |-> "key", abs_library_id |-> ""]}
Config(conn, cols) ==
    [abs_key |-> conn.abs_key, abs_library_id |-> conn.abs_library_id, cols |-> cols]

\* a map from the given keys to values, the keys whose value is None left out
Sparse(m) == [x \in {y \in DOMAIN m : ~IsNone(m[y])} |-> m[x]]

\* -- worlds of the AutoLinker --
Isbns == {None, Str("i1")}
Asins == {None, Str("a1")}
ItemIds == <<Str("r1"), Str("r2"), Str("r3"), Str("r4")>>

LinkItem(id, isbn, asin) ==
    Dict(Sparse([id |-> id,
                 media |-> Dict([metadata |-> Dict(Sparse([isbn |-> isbn, asin |-> asin,
                                                           title |-> Str("T1")]))])]))
\* items with an id: every combination of the ISBN and the ASIN the library
\* knows, and one with another ISBN; and one item without id
LinkItemShapes ==
    [isbn : Isbns, asin : Asins, has_id : {TRUE}]
    \cup {[isbn |-> Str("i2"), asin |-> Str("a1"), has_id |-> TRUE],
          [isbn |-> Str("i1"), asin |-> Str("a1"), has_id |-> FALSE]}
LinkItems(shapes) ==
    [i \in DOMAIN shapes |->
        LinkItem(IF shapes[i].has_id THEN ItemIds[i] ELSE None, shapes[i].isbn, shapes[i].asin)]

LinkBooks ==
    {Sparse([isbn |-> i, asin |-> a, audiobookshelf_id |-> None]) : i \in Isbns, a \in Asins}
    \cup {Sparse([isbn |-> Str("i1"), asin |-> Str("a1"), audiobookshelf_id |-> Str("r9")])}

\* a configured plugin and a server that delivers the items under "results"
InitLink ==
    /\ CONFIG = Config(Connected, NoMapping)
    /\ \E shapes \in SeqsUpTo(LinkItemShapes, MaxItems) :
           server = [items |-> LinkItems(shapes), envelope |-> "results", me |-> Dict(EmptyMap)]
    /\ \E ids \in [BookIds -> LinkBooks] :
           db = [b \in BookIds |-> Book(b, ids[b], NoCols)]
    /\ sync = NoSync(CONFIG, db)
    /\ link = NoLink(db)
    /\ dlg = NoDialog

\* -- worlds of the reconciliation run --
MediaOf(metadata) == Dict([metadata |-> Dict(metadata)])
SyncItems ==
    {Dict([id |-> Str("r1"), media |-> MediaOf([title |-> Str("T1"), subtitle |-> Str("T2")])]),
     Dict([id |-> Str("r1"), media |-> MediaOf([title |-> Str("T2")])]),
     Dict([id |-> Str("r2"), media |-> Str("unavailable")])}

ProgressRecords ==
    {Dict([libraryItemId |-> Str("r1"), progress |-> Str("0.5"), isStarted |-> Bool(FALSE)]),
     Dict([libraryItemId |-> Str("r1"), progress |-> Str("unknown")])}

\* the /api/me payload; it has no mediaProgress key when there is no progress
MeData(media_progress_list) ==
    IF media_progress_list = <<>> THEN Dict([username |-> Str("user")])
    ELSE Dict([username |-> Str("user"), mediaProgress |-> List(media_progress_list)])

LinkedTo(id) == [audiobookshelf_id |-> Str(id)]
SyncBooks ==
    {[identifiers |-> EmptyMap, cols |-> NoCols],
     [identifiers |-> LinkedTo("r1"), cols |-> NoCols],
     [identifiers |-> LinkedTo("r1"), cols |-> [NoCols EXCEPT !["#a"] = Str("T1")]],
     [identifiers |-> LinkedTo("r2"), cols |-> NoCols]}

\* column selections: every field to a column of its own; two fields to one column
Mappings ==
    {[column_audiobook_title |-> "#a", column_audiobook_subtitle |-> "#b",
      column_audiobook_progress |-> "#c", column_audiobook_started |-> "#d",
      column_abs_user |-> "#e"],
     [NoMapping EXCEPT !.column_audiobook_title = "#a", !.column_audiobook_subtitle = "#a"]}

\* a configured plugin and a server that delivers the items under "results"
InitSync ==
    /\ CONFIG \in {Config(Connected, m) : m \in Mappings}
    /\ \E items \in SeqsUpTo(SyncItems, MaxItems),
          media_progress_list \in SeqsUpTo(ProgressRecords, MaxProgress) :
           server = [items |-> items, envelope |-> "results",
                     me |-> MeData(media_progress_list)]
    /\ \E books \in [BookIds -> SyncBooks] :
           db = [b \in BookIds |-> Book(b, books[b].identifiers, books[b].cols)]
    /\ sync = NoSync(CONFIG, db)
    /\ link = NoLink(db)
    /\ dlg = NoDialog

\* -- worlds of the runs in which something fails: any configuration, any
\* envelope, unlinked records and records linked to the one item there is --
FaultItems ==
    {Dict([id |-> Str("r1"), media |-> MediaOf([title |-> Str("T1"), subtitle |-> Str("T2")])])}
FaultProgress ==
    {<<>>,
     <<Dict([libraryItemId |-> Str("r1"), progress |-> Str("0.5"), isStarted |-> Bool(FALSE)])>>}
FaultBooks ==
    {[identifiers |-> EmptyMap, cols |-> NoCols],
     [identifiers |-> LinkedTo("r1"), cols |-> NoCols]}
FaultMapping ==
    [column_audiobook_title |-> "#a", column_audiobook_subtitle |-> "#b",
     column_audiobook_progress |-> "#c", column_audiobook_started |-> "#d",
     column_abs_user |-> "#e"]

InitFaults ==
    /\ CONFIG \in {Config(c, FaultMapping) : c \in Connections}
    /\ \E items \in SeqsUpTo(FaultItems, MaxItems), envelope \in Envelopes,
          media_progress_list \in FaultProgress :
           server = [items |-> items, envelope |-> envelope, me |-> MeData(media_progress_list)]
    /\ \E books \in [BookIds -> FaultBooks] :
           db = [b \in BookIds |-> Book(b, books[b].identifiers, books[b].cols)]
    /\ sync = NoSync(CONFIG, db)
    /\ link = NoLink(db)
    /\ dlg = NoDialog

\* -- worlds of the LinkDialog: remote titles and authors in several cases,
\* missing or null; local records with a title and authors --
Titled(title, authorName) ==
    Dict([id |-> Str("r1"),
          media |-> MediaOf(Sparse([title |-> title, authorName |-> authorName]))])
RankItems ==
    {Titled(Str(<<97, 98>>), Str(<<120>>)),
     Titled(Str(<<66>>), Str(<<89>>)),
     Titled(Str(<<65, 98>>), None),
     Titled(None, Str(<<88>>)),
     Dict([id |-> Str("r1"), media |-> MediaOf([title |-> None, authorName |-> Str(<<120>>)])]),
     Dict([id |-> Str("r1"), media |-> MediaOf([title |-> Str(<<98>>), authorName |-> None])]),
     Dict([id |-> Str("r1"), media |-> Str("unavailable")]),
     Str("r1")}

\* a calibre book with its title and authors
TitledBook(book, title, authors) ==
    [f \in DOMAIN book \cup {"title", "authors"} |->
        IF f = "title" THEN title ELSE IF f = "authors" THEN authors ELSE book[f]]
RankBooks ==
    {[title |-> Str(<<65, 98>>), authors |-> List(<<Str(<<88>>)>>)],
     [title |-> Str(<<98>>), authors |-> Str(<<89>>)],
     [title |-> Str(<<>>), authors |-> List(<<>>)]}

InitRank ==
    /\ CONFIG = Config(Connected, NoMapping)
    /\ \E items \in SeqsUpTo(RankItems, MaxItems) :
           server = [items |-> items, envelope |-> "results", me |-> Dict(EmptyMap)]
    /\ \E books \in [BookIds -> RankBooks] :
           db = [b \in BookIds |->
                    TitledBook(Book(b, EmptyMap, NoCols), books[b].title, books[b].authors)]
    /\ sync = NoSync(CONFIG, db)
    /\ link = NoLink(db)
    /\ dlg = NoDialog

\* -- worlds of a link dialog with the daily sync due: records that are
\* unlinked, linked, or linked and synced against an older title --
DueItems ==
    {Dict([id |-> Str("r1"), media |-> MediaOf([title |-> Str(<<66>>)])]),
     Dict([id |-> Str("r2"), media |-> MediaOf([title |-> Str(<<65>>)])])}
DueBooks ==
    {[identifiers |-> EmptyMap, cols |-> NoCols],
     [identifiers |-> LinkedTo("r1"), cols |-> NoCols],
     [identifiers |-> LinkedTo("r1"), cols |-> [NoCols EXCEPT !["#a"] = Str(<<65>>)]]}

InitDue ==
    /\ CONFIG = Config(Connected, FaultMapping)
    /\ \E items \in SeqsUpTo(DueItems, MaxItems) :
           server = [items |-> items, envelope |-> "results", me |-> MeData(<<>>)]
    /\ \E books \in [BookIds -> DueBooks] :
           db = [b \in BookIds |-> Book(b, books[b].identifiers, books[b].cols)]
    /\ sync = NoSync(CONFIG, db)
    /\ link = NoLink(db)
    /\ dlg = NoDialog

(***************************************************************************)
(* Actions.                                                                *)
(***************************************************************************)
\* the "Quick Link Books" menu action
QuickLink ==
    /\ \E net \in NetOutcomes :
           link' = quick_link_books(CONFIG, server, db, net)
    /\ db' = link'.acc.db
    /\ UNCHANGED <<CONFIG, server, sync, dlg>>

NextLink == QuickLink

Raises(net) == api_request(None, net).raised

\* the lookups of a run; only a linked record is ever looked up
Lookups(d) ==
    {lookup \in [BookIds -> LookupOutcomes] :
        \A b \in BookIds :
            ~Truthy(MapGet(d[b].identifiers, "audiobookshelf_id", None)) => lookup[b] = "found"}
AllFound == [b \in BookIds |-> "found"]

\* sync_from_audiobookshelf, run from the toolbar or by the scheduled task.
\* The second request is only made when the first did not raise, and the
\* lookups only happen in a run whose two requests succeeded.
SyncAction(silent, nets, lookups) ==
    /\ \E net_items \in nets :
         \E net_me \in IF Raises(net_items) THEN {"ok"} ELSE nets :
           \E lookup \in IF net_items = "ok" /\ net_me = "ok" THEN lookups ELSE {AllFound} :
             sync' = sync_from_audiobookshelf(CONFIG, server, db, silent, net_items, net_me,
                                              lookup)
    /\ db' = sync'.acc.db
    /\ UNCHANGED <<CONFIG, server, link, dlg>>

\* the toolbar button (qaction.triggered) in a run in which nothing fails
SyncOnline == SyncAction(FALSE, {"ok"}, {AllFound})

\* the toolbar button, whatever happens to the requests and the lookups
Sync == SyncAction(FALSE, NetOutcomes, Lookups(db))

\* get_selected_ids(): the selected books, in the order of the view
Selections ==
    {SelectSeq(all_book_ids, LAMBDA b : b \in S) : S \in SUBSET BookIds}

\* link_audiobookshelf_book up to its first dialog
LinkAction(nets) ==
    /\ dlg.pc = "idle"
    /\ \E net_items \in nets :
         \E net_me \in IF Raises(net_items) THEN {"ok"} ELSE nets :
           \E selected_ids \in IF net_items = "ok" /\ net_me = "ok" THEN Selections ELSE {<<>>} :
             dlg' = link_audiobookshelf_book(CONFIG, server, db, net_items, net_me, selected_ids)
    /\ UNCHANGED <<CONFIG, server, db, sync, link>>

\* the "Link Audiobookshelf Book" menu action, whatever happens to the requests
LinkSelected == LinkAction(NetOutcomes)

\* the menu action while both requests are answered
LinkOnline == LinkAction({"ok"})

\* the user accepts the dialog with a row selected; the loop goes on
DialogAccept ==
    /\ dlg.pc = "open"
    /\ \E row \in DOMAIN dlg.items :
           /\ db' = accepted(db, dlg, row).db
           /\ dlg' = NextDialog(db', accepted(db, dlg, row).st, dlg.rest)
    /\ UNCHANGED <<CONFIG, server, sync, link>>

\* the user accepts the dialog without a selection or cancels it
DialogReject ==
    /\ dlg.pc = "open"
    /\ dlg' = NextDialog(db, rejected(db, dlg).st, dlg.rest)
    /\ UNCHANGED <<CONFIG, server, db, sync, link>>

\* scheduledTask: the timer fires, whether or not a LinkDialog is open (its
\* exec_() runs the event loop), and runs the sync silently
ScheduledSync == SyncAction(TRUE, {"ok"}, {AllFound})

NextSync == SyncOnline

NextRank == LinkSelected \/ DialogReject

NextLinkSync == QuickLink \/ SyncOnline

NextDue == LinkOnline \/ DialogAccept \/ DialogReject \/ ScheduledSync

NextFaults == Sync

\* quick_link_books runs, over every library and item list
SpecLink == InitLink /\ [][NextLink]_vars

\* sync runs in which nothing fails, over every library and fetch
SpecSync == InitSync /\ [][NextSync]_vars

\* sync runs under every configuration, transport outcome, envelope and lookup
SpecFaults == InitFaults /\ [][NextFaults]_vars

\* quick_link_books and sync runs on one library and one item list
SpecLinkSync == InitLink /\ [][NextLinkSync]_vars

\* link_audiobookshelf_book interleaved with the scheduled sync
SpecDue == InitDue /\ [][NextDue]_vars

\* the dialogs of link_audiobookshelf_book, over every item list and library
SpecRank == InitRank /\ [][NextRank]_vars

(***************************************************************************)
(* Properties of quick_link_books.                                         *)
(***************************************************************************)
Occurrences(seq, x) == Cardinality({i \in DOMAIN seq : seq[i] = x})

\* the fetched items whose media.metadata[field] is the book's identifier
Sharing(abs_items, field, identifiers) ==
    {i \in DOMAIN abs_items :
        /\ field \in DOMAIN identifiers
        /\ Truthy(identifiers[field])
        /\ get_nested_value(abs_items[i], <<"media", "metadata", field>>) = identifiers[field]}

UniqueBy(field, b) ==
    Cardinality(Sharing(link.abs_items, field, link.before[b].identifiers)) = 1
TheItemBy(field, b) ==
    link.abs_items[CHOOSE i \in Sharing(link.abs_items, field, link.before[b].identifiers) : TRUE]

HadRemoteId(b) == "audiobookshelf_id" \in DOMAIN link.before[b].identifiers
HasRemoteId(b) == "audiobookshelf_id" \in DOMAIN db[b].identifiers
LinkEntries(b) == {i \in DOMAIN link.acc.results : link.acc.results[i].book = b}

\* C1: a record without remote_id is linked by a completed quick_link_books
\* run iff exactly one fetched item shares its ISBN or exactly one shares its
\* ASIN; otherwise it stays unlinked and is reported 'No unique match found'.
C1_LinkedIffUniqueMatch ==
    link.outcome = "done" =>
        \A b \in BookIds :
            ~HadRemoteId(b) =>
                LET unique == UniqueBy("isbn", b) \/ UniqueBy("asin", b)
                IN /\ HasRemoteId(b) <=> unique
                   /\ unique => /\ Occurrences(link.acc.writes, b) = 1
                                /\ \E i \in LinkEntries(b) : link.acc.results[i].error = ""
                   /\ ~unique =>
                        /\ db[b] = link.before[b]
                        /\ Occurrences(link.acc.writes, b) = 0
                        /\ \E i \in LinkEntries(b) :
                              link.acc.results[i].error = "No unique match found"

\* a record whose ISBN is shared by two items is linked through its ASIN
C1_Witness ==
    /\ link.outcome = "done"
    /\ \E b \in BookIds :
          /\ ~HadRemoteId(b)
          /\ Cardinality(Sharing(link.abs_items, "isbn", link.before[b].identifiers)) = 2
          /\ UniqueBy("asin", b)
          /\ HasRemoteId(b)
    /\ \E b \in BookIds :
          /\ ~HadRemoteId(b) /\ ~HasRemoteId(b)
          /\ Cardinality(Sharing(link.abs_items, "isbn", link.before[b].identifiers)) = 2

\* C2: quick_link_books never touches a record that already has
\* identifiers.audiobookshelf_id: no write, no field changed, no tally entry.
C2_AlreadyLinkedUntouched ==
    \A b \in BookIds :
        HadRemoteId(b) =>
            /\ Occurrences(link.acc.writes, b) = 0
            /\ db[b] = link.before[b]
            /\ LinkEntries(b) = {}
            /\ link.acc.num_linked + link.acc.num_failed
                  = Cardinality({c \in BookIds : ~HadRemoteId(c)}) * (IF link.outcome = "done" THEN 1 ELSE 0)

\* an already linked record whose ISBN matches exactly one fetched item
C2_Witness ==
    /\ link.outcome = "done"
    /\ \E b \in BookIds :
          /\ HadRemoteId(b)
          /\ UniqueBy("isbn", b)
          /\ DictGet(TheItemBy("isbn", b), "id", None) # db[b].identifiers["audiobookshelf_id"]
    /\ link.acc.num_linked > 0

\* C3: ISBN is tried before ASIN: a record whose ISBN matches exactly one
\* item gets that item's id whatever its ASIN matches, a record linked
\* through its ASIN has no unique ISBN match, and no record is written twice.
C3_IsbnBeforeAsin ==
    link.outcome = "done" =>
        \A b \in BookIds :
            ~HadRemoteId(b) =>
                /\ UniqueBy("isbn", b) =>
                      db[b].identifiers["audiobookshelf_id"]
                          = DictGet(TheItemBy("isbn", b), "id", None)
                /\ (~UniqueBy("isbn", b) /\ UniqueBy("asin", b)) =>
                      db[b].identifiers["audiobookshelf_id"]
                          = DictGet(TheItemBy("asin", b), "id", None)
                /\ Occurrences(link.acc.writes, b) <= 1

\* ISBN matches exactly one item A, ASIN exactly one other item B; A is linked
C3_Witness ==
    /\ link.outcome = "done"
    /\ \E b \in BookIds :
          /\ ~HadRemoteId(b)
          /\ UniqueBy("isbn", b) /\ UniqueBy("asin", b)
          /\ DictGet(TheItemBy("isbn", b), "id", None) # DictGet(TheItemBy("asin", b), "id", None)
          /\ db[b].identifiers["audiobookshelf_id"] = DictGet(TheItemBy("isbn", b), "id", None)

(***************************************************************************)
(* Properties of sync_from_audiobookshelf.                                 *)
(***************************************************************************)
Max(S) == CHOOSE x \in S : \A y \in S : y <= x

\* the remote id the record had when the run read it
RemoteId(b) == MapGet(sync.before[b].identifiers, "audiobookshelf_id", None)
WasLinked(b) == Truthy(RemoteId(b))
LinkedBooks == {b \in BookIds : WasLinked(b)}

\* the fetched items carrying the record's remote id
ItemsFor(b) ==
    {i \in DOMAIN sync.items_list : Truthy(RemoteId(b)) /\
        get_nested_value(sync.items_list[i], <<"id">>) = RemoteId(b)}
InFetch(b) == ItemsFor(b) # {}
ItemFor(b) == sync.items_list[Max(ItemsFor(b))]

\* the fetched progress record of the record's remote item, {} without one
ProgressList == get_nested_value(sync.me_data, <<"mediaProgress">>)
ProgressFor(b) ==
    LET list == IF IsNone(ProgressList) THEN <<>> ELSE ProgressList.l
        idx == {i \in DOMAIN list : get_nested_value(list[i], <<"libraryItemId">>) = RemoteId(b)}
    IN IF idx = {} THEN Dict(EmptyMap) ELSE list[Max(idx)]

\* the value freshly computed for a mapping entry and a record
Fresh(n, b) == FieldValue(COLUMNS[n], ItemFor(b), ProgressFor(b), sync.me_data)
UpdateSet(b) == sync.acc.sets[b].kv
SyncEntries(b) == {i \in DOMAIN sync.acc.results : sync.acc.results[i].book = b}

\* C4: the UpdateSet of a record holds a column only with a value that was
\* freshly computed for it by an entry mapped to the column, is not None and
\* differs from the value the record had before the run; records that are
\* not linked to a fetched item have an empty UpdateSet.
C4_UpdateSetOnlyChanges ==
    sync.outcome = "done" =>
        \A b \in BookIds :
            /\ \A col \in DOMAIN UpdateSet(b) :
                  /\ ~IsNone(UpdateSet(b)[col])
                  /\ UpdateSet(b)[col] # MetaGet(sync.before[b], col)
                  /\ \E n \in DOMAIN COLUMNS :
                        sync.cfg.cols[n] = col /\ Fresh(n, b) = UpdateSet(b)[col]
            /\ UpdateSet(b) # EmptyMap => WasLinked(b) /\ InFetch(b)

\* one record has a field whose fresh value equals its old value (left out)
\* next to fields that changed; another one is linked to an item whose
\* media is not a mapping: its title extracts to None and is left out
C4_Witness ==
    /\ sync.outcome = "done"
    /\ \E b \in BookIds, n \in DOMAIN COLUMNS :
          /\ InFetch(b) /\ UpdateSet(b) # EmptyMap
          /\ sync.cfg.cols[n] # "" /\ sync.cfg.cols[n] \notin DOMAIN UpdateSet(b)
          /\ ~IsNone(Fresh(n, b))
          /\ Fresh(n, b) = MetaGet(sync.before[b], sync.cfg.cols[n])
    /\ \E b \in BookIds :
          /\ InFetch(b) /\ UpdateSet(b) # EmptyMap
          /\ get_nested_value(ItemFor(b), <<"media">>).k = "str"
          /\ sync.cfg.cols["column_audiobook_title"] # ""
          /\ sync.cfg.cols["column_audiobook_title"] \notin DOMAIN UpdateSet(b)

\* C5: a sync run that follows a completed sync run in which nothing failed,
\* with the same configuration and the same fetched data, has an empty
\* UpdateSet for every record and writes nothing.
C5_Idempotent ==
    [][(/\ sync.outcome = "done" /\ sync.acc.num_fail = 0
        /\ sync'.outcome = "done"
        /\ sync'.cfg = sync.cfg /\ sync'.items_list = sync.items_list
        /\ sync'.me_data = sync.me_data)
       => /\ \A b \in BookIds : sync'.acc.sets[b].kv = EmptyMap
          /\ sync'.acc.writes = <<>>
          /\ db' = db]_vars

\* the orders in which the mapping table can be iterated
Orders ==
    {o \in [1..Len(ColumnOrder) -> DOMAIN COLUMNS] :
        \A i, j \in 1..Len(ColumnOrder) : o[i] = o[j] => i = j}

\* C6: the UpdateSet of a record is the same in whatever order the mapping
\* entries are processed.
C6_OrderIndependent ==
    sync.outcome = "done" =>
        \A b \in BookIds :
            InFetch(b) =>
                \A o \in Orders :
                    keys_values_to_update(o, sync.cfg, sync.before[b], ItemFor(b),
                                          ProgressFor(b), sync.me_data).kv = UpdateSet(b)

\* C7: in a completed run updated + skipped + failed is the number of report
\* entries, which is the number of linked records; each linked record has
\* exactly one entry and counts once, an unlinked record has none.
C7_CountsAddUp ==
    sync.outcome = "done" =>
        LET failed == {b \in LinkedBooks : \E i \in SyncEntries(b) :
                          sync.acc.results[i].error = "Book not found"}
            skipped == {b \in LinkedBooks : UpdateSet(b) = EmptyMap}
        IN /\ sync.acc.num_success + sync.acc.num_skip + sync.acc.num_fail
                 = Len(sync.acc.results)
           /\ Len(sync.acc.results) = Cardinality(LinkedBooks)
           /\ \A b \in BookIds :
                 Cardinality(SyncEntries(b)) = IF WasLinked(b) THEN 1 ELSE 0
           /\ sync.acc.num_fail = Cardinality(failed)
           /\ sync.acc.num_skip = Cardinality(skipped)
           /\ sync.acc.num_success = Cardinality(LinkedBooks \ (failed \cup skipped))

\* a reported run over a record whose apply failed and a linked record
\* that was updated or had nothing to update
C7_Witness ==
    /\ sync.outcome = "done" /\ sync.reported
    /\ sync.acc.num_fail = 1
    /\ sync.acc.num_skip + sync.acc.num_success = 1

\* C8: a run that ends in a fatal error has written nothing: the library is
\* what it was before the run.  A missing key or library id ends the run
\* before any request; a request that returned None ends it as FetchError.
C8_FatalBeforeMutation ==
    /\ sync.outcome \in {"ConfigError", "FetchError", "Exception"} =>
          /\ db = sync.before
          /\ sync.acc.writes = <<>>
          /\ sync.acc.results = <<>>
    /\ sync.outcome # "none" =>
          ((sync.cfg.abs_key = "" \/ sync.cfg.abs_library_id = "")
              <=> sync.outcome = "ConfigError")
    /\ sync.outcome = "ConfigError" => sync.fetches = 0
    /\ sync.failed # {} <=> sync.outcome = "FetchError"

\* the user profile request failed in a run that would have updated a record
C8_Witness ==
    /\ sync.outcome = "FetchError" /\ sync.failed = {"me"}
    /\ server.envelope # "other"
    /\ \E b \in BookIds, i \in DOMAIN server.items :
          /\ Truthy(RemoteId(b))
          /\ get_nested_value(server.items[i], <<"id">>) = RemoteId(b)
          /\ sync.cfg.cols["column_audiobook_started"] # ""

\* C9: no failure of a remote call escapes the run as an exception: every
\* one of them ends the run as FetchError.
C9_FailuresAreFetchErrors == sync.outcome # "Exception"

\* C10: a linked record whose remote id is not in the fetch gets one entry
\* 'Audiobookshelf item not found', counts as skipped and not as failed, is
\* not written, and the records after it are still processed.
C10_NotFoundIsSkipped ==
    sync.outcome = "done" =>
        LET missing == {b \in LinkedBooks : ~InFetch(b)}
        IN /\ \A b \in missing :
                 /\ Cardinality(SyncEntries(b)) = 1
                 /\ \A i \in SyncEntries(b) :
                       sync.acc.results[i].error = "Audiobookshelf item not found"
                 /\ db[b] = sync.before[b]
                 /\ Occurrences(sync.acc.writes, b) = 0
           /\ sync.acc.num_skip >= Cardinality(missing)
           /\ sync.acc.num_fail + sync.acc.num_success
                 <= Cardinality(LinkedBooks) - Cardinality(missing)
           /\ \A b \in LinkedBooks : SyncEntries(b) # {}

\* the first record's item is not in the fetch, a later record is updated
C10_Witness ==
    /\ sync.outcome = "done"
    /\ \E b, c \in BookIds :
          /\ b < c
          /\ WasLinked(b) /\ ~InFetch(b)
          /\ Occurrences(sync.acc.writes, c) = 1
    /\ sync.acc.num_skip = 1 /\ sync.acc.num_fail = 0

\* the records of the run whose lookup_by_uuid raised or returned no handle
Unresolved == {b \in BookIds : sync.acc.sets[b].lookup \in {"raise", "none"}}

\* the same run over the same library and responses with every lookup found
AllResolved ==
    sync_from_audiobookshelf(sync.cfg, server, sync.before, ~sync.reported, "ok", "ok", AllFound)

\* C11: a record whose lookup raises or returns no handle is not written,
\* gets one entry 'Book not found' and counts as failed; every linked record
\* still gets its entry, and every other record ends exactly as in the run
\* in which no lookup fails.
C11_ApplyFailureIsTallied ==
    sync.outcome = "done" =>
        /\ \A b \in Unresolved :
              /\ db[b] = sync.before[b]
              /\ Occurrences(sync.acc.writes, b) = 0
              /\ Cardinality(SyncEntries(b)) = 1
              /\ \A i \in SyncEntries(b) : sync.acc.results[i].error = "Book not found"
        /\ sync.acc.num_fail = Cardinality(Unresolved)
        /\ \A b \in LinkedBooks : Cardinality(SyncEntries(b)) = 1
        /\ \A c \in BookIds \ Unresolved :
              /\ db[c] = AllResolved.acc.db[c]
              /\ UpdateSet(c) = AllResolved.acc.sets[c].kv
              /\ Occurrences(sync.acc.writes, c) = Occurrences(AllResolved.acc.writes, c)
              /\ \A i \in SyncEntries(c) : sync.acc.results[i].error # "Book not found"
        /\ \A i \in DOMAIN sync.acc.results :
              sync.acc.results[i].book = AllResolved.acc.results[i].book

\* the lookup of a record with a non-empty UpdateSet fails, a later record
\* is written
C11_Witness ==
    /\ sync.outcome = "done"
    /\ \E b, c \in BookIds :
          /\ b < c
          /\ b \in Unresolved
          /\ UpdateSet(b) # EmptyMap
          /\ Occurrences(sync.acc.writes, c) = 1
    /\ sync.acc.num_fail = 1 /\ sync.acc.num_success = 1

\* a progress record of the record's remote item is in the fetch
HasProgress(b) ==
    LET list == IF IsNone(ProgressList) THEN <<>> ELSE ProgressList.l
    IN \E i \in DOMAIN list : get_nested_value(list[i], <<"libraryItemId">>) = RemoteId(b)

\* what the entry's path yields on its source, before any default or transform
Extracted(n, b) ==
    CASE COLUMNS[n].api_source = "mediaProgress" ->
             IF HasProgress(b) THEN get_nested_value(ProgressFor(b), COLUMNS[n].data_location)
             ELSE None
      [] COLUMNS[n].api_source = "lib_items" ->
             get_nested_value(ItemFor(b), COLUMNS[n].data_location)
      [] COLUMNS[n].api_source = "me" ->
             get_nested_value(sync.me_data, COLUMNS[n].data_location)

\* the value of an entry: true for 'Audiobook Started' when the path yields
\* None on an existing progress record, no value for any other None, the
\* transformed extraction otherwise
Defaulted(n, b) ==
    IF IsNone(Extracted(n, b))
    THEN IF COLUMNS[n].column_heading = "Audiobook Started" /\ HasProgress(b)
         THEN Bool(TRUE) ELSE None
    ELSE IF COLUMNS[n].transform # "" THEN Transform(COLUMNS[n].transform, Extracted(n, b))
    ELSE Extracted(n, b)

\* C12: every value of an UpdateSet is the value of an entry mapped to its
\* column, where only 'Audiobook Started' has a default (true), and only
\* when the progress record of the linked item exists.
C12_StartedDefaultNeedsProgress ==
    sync.outcome = "done" =>
        \A b \in BookIds :
            \A col \in DOMAIN UpdateSet(b) :
                \E n \in DOMAIN COLUMNS :
                    sync.cfg.cols[n] = col /\ Defaulted(n, b) = UpdateSet(b)[col]

(***************************************************************************)
(* Properties of link_audiobookshelf_book and LinkDialog.                  *)
(***************************************************************************)
\* the title and the author name of a remote item, '' when it has none
RemoteTitle(item) == DictGet(ItemMetadata(item), "title", Str(<<>>)).s
RemoteAuthor(item) == DictGet(ItemMetadata(item), "authorName", Str(<<>>)).s

\* the score of an item against the record of the open dialog
MatchScore(item) ==
    (IF lower(RemoteTitle(item)) = lower(dlg.metadata.title.s) THEN 1 ELSE 0)
    + (IF \E a \in calibre_authors(dlg.metadata) : lower(RemoteAuthor(item)) = a THEN 1 ELSE 0)

\* C13: for every fetched list and record the ordering of the LinkDialog
\* exists and is a permutation of the fetched RemoteItems in which no item
\* precedes one of a higher score and, among equal scores, titles are in
\* non-decreasing lowercased order.
C13_RankedOrdering ==
    /\ dlg.outcome # "AttributeError"
    /\ dlg.pc = "open" =>
          /\ Len(dlg.items) = Len(filtered_items(dlg.fetched))
          /\ \A i \in DOMAIN dlg.fetched :
                IsDict(dlg.fetched[i]) =>
                    Occurrences(dlg.items, dlg.fetched[i])
                        = Occurrences(dlg.fetched, dlg.fetched[i])
          /\ \A i, j \in DOMAIN dlg.items :
                i < j =>
                    /\ MatchScore(dlg.items[i]) >= MatchScore(dlg.items[j])
                    /\ MatchScore(dlg.items[i]) = MatchScore(dlg.items[j]) =>
                          ~LexLess(lower(RemoteTitle(dlg.items[j])),
                                   lower(RemoteTitle(dlg.items[i])))

(***************************************************************************)
(* quick_link_books and sync_from_audiobookshelf on the same library.      *)
(***************************************************************************)
\* the records the last quick_link_books run reported as linked
ReportedLinked ==
    {b \in BookIds : \E i \in LinkEntries(b) : link.acc.results[i].error = ""}

\* the item the run matched to the record
MatchedFor(b) ==
    MatchedItem(link.before[b].identifiers, isbn_index(link.abs_items),
                asin_index(link.abs_items))

\* the sync run is the run that followed the quick_link_books run
SyncFollowsLink ==
    /\ link.outcome = "done" /\ sync.outcome = "done"
    /\ sync.before = link.acc.db
    /\ sync.items_list = link.abs_items

\* C14: the remote id stored for a record reported as linked is non-empty
\* and resolves to the matched item in the id index of the fetched list; the
\* sync run that follows reconciles the record; and a record the sync run
\* treats as unlinked is one quick_link_books would still try to link.
C14_LinkedMeansLinked ==
    /\ link.outcome = "done" =>
          \A b \in ReportedLinked :
              LET abs_id == MapGet(link.acc.db[b].identifiers, "audiobookshelf_id", None)
              IN /\ Truthy(abs_id)
                 /\ MapGet(items_dict(link.abs_items), abs_id, None) = MatchedFor(b)
    /\ SyncFollowsLink =>
          \A b \in ReportedLinked :
              sync.acc.sets[b].linked /\ sync.acc.sets[b].found
    /\ sync.outcome = "done" =>
          \A b \in BookIds :
              ~sync.acc.sets[b].linked => ~AlreadyLinked(sync.before[b].identifiers)

(***************************************************************************)
(* link_audiobookshelf_book interleaved with scheduled sync runs.          *)
(***************************************************************************)
\* the step in which the link writes the record of the open dialog
LinkWrite == dlg.pc = "open" /\ dlg'.linked = dlg.linked + 1

OtherIdentifiers(metadata) ==
    [k \in DOMAIN metadata.identifiers \ {"audiobookshelf_id"} |-> metadata.identifiers[k]]

\* C15: the write of an interactive link changes nothing but
\* identifiers.audiobookshelf_id: every custom column and every other
\* identifier of the record, and every other record, is after the write
\* what it was immediately before it, whatever ran since the dialog opened.
C15_LinkChangesOnlyRemoteId ==
    [][LinkWrite =>
          /\ db'[dlg.book_id].cols = db[dlg.book_id].cols
          /\ db'[dlg.book_id].uuid = db[dlg.book_id].uuid
          /\ OtherIdentifiers(db'[dlg.book_id]) = OtherIdentifiers(db[dlg.book_id])
          /\ \A b \in BookIds \ {dlg.book_id} : db'[b] = db[b]]_vars

====
